---- MODULE Spec2Model ----
(***************************************************************************)
(* Model of the single-run service harness                                 *)
(*   src/assemblyline_v4_service/dev/run_service_once.py                   *)
(* RunService.try_run is followed statement by statement: each action is   *)
(* one step of try_run, pc is the position reached.  The file system (the  *)
(* temp directory, the shared staging directory <temp>/working_directory   *)
(* and the per-(input, service) workspace) outlives a run; the locals of   *)
(* try_run and the RunService object are fresh in every run.               *)
(***************************************************************************)
EXTENDS Integers, Sequences, FiniteSets, TLC

\* ------------------------------------------------------------------ bounds
MaxRuns == 2          \* successive invocations of the harness
MaxSections == 2      \* sections in a raw result

\* ------------------------------------------------------- program constants
TTL == 3600                    \* ttl=3600 of the task
MAX_FILES == 501               \* max_files=501 of the task
ONE_DAY == 1 * 24 * 60 * 60    \* the factor of now_as_iso(1 * 24 * 60 * 60)

\* ------------------------------------------------------------ input domains
FileNames == {"f1"}            \* names a service may deposit in staging
Payloads == {1}                \* distinct byte contents of an input file
Ticks == {0, 1}                \* seconds the clock may advance between reads
HeurIds == {1, 2}              \* heuristic ids a section may reference

ScoreOf(id) == 10 * id         \* the score the manifest declares for id
NameOf(id) == <<"heur", id>>   \* the name the manifest declares for id

\* get_heuristics(): the catalog, the ids the service declares, each with its
\* name and score.
Catalogs ==
    {[id \in S |-> [name |-> NameOf(id), score |-> ScoreOf(id)]] :
        S \in SUBSET HeurIds}

\* --------------------------------------------------------------- file contents
NoFile == [kind |-> "none", data |-> 0]
Plain(d) == [kind |-> "plain", data |-> d]
Cart(d) == [kind |-> "cart", data |-> d]
InputContents == {Plain(d) : d \in Payloads} \cup {Cart(d) : d \in Payloads}

\* sha256 of a content: injective in the bytes.
Sha(c) == [digest |-> c]

\* identify.fileinfo: only sha256 and type steer the harness; md5, sha1,
\* magic, mime and size are copied into the task unread.
fileinfo(c) ==
    [sha256 |-> Sha(c),
     type |-> IF c.kind = "cart" THEN "archive/cart" ELSE "unknown"]

NoInfo == [sha256 |-> Sha(NoFile), type |-> "none"]

\* cart.unpack_stream: the payload wrapped by a CaRT archive.
unpack_stream(c) == Plain(c.data)

\* ------------------------------------------------------------- raw results
\* A section's heuristic: absent (None in the raw result), raw (a reference
\* by heur_id), resolved (heur_id, name, score) or null (set to None).
NoHeuristic == [state |-> "absent", heur_id |-> 0, score |-> 0, name |-> <<>>]
RawHeuristic(id) == [state |-> "raw", heur_id |-> id, score |-> 0, name |-> <<>>]
NullHeuristic(id) == [state |-> "null", heur_id |-> id, score |-> 0, name |-> <<>>]

SectionHeuristics == {NoHeuristic} \cup {RawHeuristic(id) : id \in HeurIds}

SectionLists == UNION {[1..n -> SectionHeuristics] : n \in 0..MaxSections}

EntryLists == {<<>>, <<[path |-> TRUE]>>}

\* What handle_task may leave in <sid>_<sha256>_result.json.  json = FALSE
\* is a file json.load cannot parse; schema = FALSE is a result that the
\* Result model rejects.
Unparsable ==
    [json |-> FALSE, schema |-> FALSE, scratch |-> FALSE, extracted |-> <<>>,
     supplementary |-> <<>>, sections |-> <<>>, score |-> 0,
     created |-> <<>>, archive_ts |-> <<>>, expiry_ts |-> <<>>]

RawResults ==
    {Unparsable} \cup
    {[json |-> TRUE, schema |-> ok, scratch |-> s, extracted |-> e,
      supplementary |-> u, sections |-> secs, score |-> 0,
      created |-> <<>>, archive_ts |-> <<>>, expiry_ts |-> <<>>] :
        ok \in BOOLEAN, s \in BOOLEAN, e \in EntryLists, u \in EntryLists,
        secs \in SectionLists}

NoResult == Unparsable

\* ------------------------------------------------------------------- state
VARIABLES
    run,            \* number of the current invocation of the harness
    pc,             \* position of try_run
    error,          \* the exception that ended try_run, "none" if none
    env,            \* module, manifest and input file as this run finds them
    calls,          \* calls made on the service object, in order
    manifest_logged,\* LOG.error("Invalid service manifest") was written
    file_info,      \* local file_info
    target_file,    \* local target_file (a name in the temp directory)
    service_task,   \* local service_task
    tmpFiles,       \* payload files of the temp directory
    tmpResults,     \* result artifacts of the temp directory
    staging,        \* <temp>/working_directory
    workspace,      \* <dir of input>/<file name>_<service name>
    files,          \* local files (the listing of staging)
    result,         \* local result (the parsed result being normalized)
    heuristics,     \* local heuristics (the catalog)
    total_score,    \* local total_score
    idx,            \* position of the loop over result.result.sections
    reached,        \* furthest statement of the try block that completed
    invalid_logged, \* LOG.error("Invalid result created") was written
    upd             \* the updater application: the request it is serving

vars == <<run, pc, error, env, calls, manifest_logged, file_info, target_file,
          service_task, tmpFiles, tmpResults, staging, workspace, files,
          result, heuristics, total_score, idx, reached, invalid_logged,
          upd>>

harnessVars == <<run, pc, error, env, calls, manifest_logged, file_info,
                 target_file, service_task, tmpFiles, tmpResults, staging,
                 workspace, files, result, heuristics, total_score, idx,
                 reached, invalid_logged>>

fsVars == <<tmpFiles, tmpResults, staging, workspace>>
normVars == <<result, heuristics, total_score, idx, reached, invalid_logged>>
taskVars == <<file_info, target_file, service_task>>

Envs ==
    [module : BOOLEAN,
     manifest : {"missing", "invalid", "valid"},
     input : {NoFile} \cup InputContents]

NoDir == [exists |-> FALSE, entries |-> {}]
NoWorkspace == [exists |-> FALSE, artifacts |-> {}, result_json |-> {}]
NoTask == [sid |-> 0, sha256 |-> Sha(NoFile), ttl |-> 0, max_files |-> 0]
NoCatalog == [id \in {} |-> [name |-> NameOf(id), score |-> ScoreOf(id)]]

\* A file written to a directory replaces the file of the same name.
WriteFile(dir, name, body) ==
    {f \in dir : f.name # name} \cup {[name |-> name, body |-> body]}

\* The locals of try_run and the RunService object at the start of a run.
FreshProcess ==
    /\ pc = "load_module"
    /\ error = "none"
    /\ calls = <<>>
    /\ manifest_logged = FALSE
    /\ file_info = NoInfo
    /\ target_file = Sha(NoFile)
    /\ service_task = NoTask
    /\ files = {}
    /\ result = NoResult
    /\ heuristics = NoCatalog
    /\ total_score = 0
    /\ idx = 0
    /\ reached = "none"
    /\ invalid_logged = FALSE

\* ------------------------------------------------- updater/app.py, data
\* AUTH_KEY: AL_INSTANCE_KEY of the environment, or the default.
AUTH_KEY == "ThisIsARandomAuthKey...ChangeMe!"

\* request.environ.get('HTTP_X_APIKEY', None): no header, another key, the key.
ApiKeys == {"None", "SomeOtherKey", AUTH_KEY}

LiveEndpoint == "/healthz/live"
StatusEndpoint == "/status"
Protected == {"/files", "/files/<path:name>", "/tar"}
Endpoints == {LiveEndpoint, StatusEndpoint} \cup Protected

\* What http://localhost:9999 answers: up = FALSE is a failed request (no
\* connection, an error status, no JSON, a missing key); _directory and
\* _tar are null, a path that does not exist, or an existing directory or
\* file.
StatusSources ==
    [up : BOOLEAN,
     directory : {"null", "missing", "isdir"},
     tar : {"null", "missing", "isfile"}]

IdleUpdater ==
    [phase |-> "idle", endpoint |-> LiveEndpoint, apikey |-> "None",
     source |-> [up |-> FALSE, directory |-> "null", tar |-> "null"],
     queried |-> FALSE, response |-> "none"]

Init ==
    /\ run = 1
    /\ env \in Envs
    /\ FreshProcess
    /\ upd = IdleUpdater
    /\ tmpFiles = {}
    /\ tmpResults = {}
    /\ staging = NoDir
    /\ workspace = NoWorkspace

\* An exception leaves try_run: nothing catches it, the process exits.
Raise(e) ==
    /\ pc' = "aborted"
    /\ error' = e


\* ------------------------------------------------- try_run, lines 32 to 53
\* load_module_by_path(SERVICE_PATH): every exception is re-raised.
LoadModule ==
    /\ pc = "load_module"
    /\ IF env.module
         THEN pc' = "load_manifest" /\ error' = error
         ELSE Raise("module")
    /\ UNCHANGED <<upd, run, env, calls, manifest_logged, taskVars, fsVars, files,
                   normVars>>

\* load_service_manifest without the raise of line 201.
load_service_manifest_NoRaise ==
    /\ pc = "load_manifest"
    /\ manifest_logged' = (env.manifest = "invalid")
    /\ pc' = "check_input"
    /\ UNCHANGED <<upd, run, error, env, calls, taskVars, fsVars, files, normVars>>

\* load_service_manifest: a missing service_manifest.yml raises; a manifest
\* the Service model rejects is logged and the service class is instantiated
\* all the same.
load_service_manifest ==
    /\ pc = "load_manifest"
    /\ IF env.manifest = "missing"
         THEN Raise("manifest") /\ manifest_logged' = manifest_logged
         ELSE /\ manifest_logged' = (env.manifest = "invalid")
              /\ pc' = "check_input"
              /\ error' = error
    /\ UNCHANGED <<upd, run, env, calls, taskVars, fsVars, files, normVars>>

\* CheckInput with the workspace of lines 95 to 98 prepared as soon as
\* working_dir is computed at line 50.
CheckInput_WipesWorkspace ==
    /\ pc = "check_input"
    /\ pc' = IF env.input = NoFile THEN "returned" ELSE "start"
    /\ workspace' = IF env.input = NoFile
                      THEN workspace
                      ELSE [exists |-> TRUE, artifacts |-> {},
                            result_json |-> {}]
    /\ UNCHANGED <<upd, run, error, env, calls, manifest_logged, taskVars,
                   tmpFiles, tmpResults, staging, files, normVars>>

\* CheckInput without the early return of line 44.
CheckInput_NoEarlyReturn ==
    /\ pc = "check_input"
    /\ pc' = "start"
    /\ UNCHANGED <<upd, run, error, env, calls, manifest_logged, taskVars, fsVars,
                   files, normVars>>

\* if not os.path.isfile(FILE_PATH): return
CheckInput ==
    /\ pc = "check_input"
    /\ pc' = IF env.input = NoFile THEN "returned" ELSE "start"
    /\ UNCHANGED <<upd, run, error, env, calls, manifest_logged, taskVars, fsVars,
                   files, normVars>>

\* try_run without the call of line 53.
start_service_Omitted ==
    /\ pc = "start"
    /\ calls' = calls
    /\ pc' = "identify"
    /\ UNCHANGED <<upd, run, error, env, manifest_logged, taskVars, fsVars, files,
                   normVars>>

\* self.service.start_service()
start_service ==
    /\ pc = "start"
    /\ calls' = Append(calls, "start_service")
    /\ pc' = "identify"
    /\ UNCHANGED <<upd, run, error, env, manifest_logged, taskVars, fsVars, files,
                   normVars>>

\* ------------------------------------------------- try_run, lines 55 to 71
\* file_info = identify.fileinfo(FILE_PATH)
Identify ==
    /\ pc = "identify"
    /\ env.input # NoFile
    /\ file_info' = fileinfo(env.input)
    /\ pc' = "unwrap"
    /\ UNCHANGED <<upd, run, error, env, calls, manifest_logged, target_file,
                   service_task, fsVars, files, normVars>>

\* The archive/cart branch up to unpack_stream, or the copy of the other
\* branch.
Unwrap ==
    /\ pc = "unwrap"
    /\ IF file_info.type = "archive/cart"
         THEN /\ tmpFiles' = WriteFile(tmpFiles, file_info.sha256,
                                       unpack_stream(env.input))
              /\ target_file' = target_file
              /\ pc' = "reidentify"
         ELSE /\ target_file' = file_info.sha256
              /\ tmpFiles' = WriteFile(tmpFiles, file_info.sha256, env.input)
              /\ pc' = "build_task"
    /\ UNCHANGED <<upd, run, error, env, calls, manifest_logged, file_info,
                   service_task, tmpResults, staging, workspace, files,
                   normVars>>

\* Reidentify with shutil.copyfile in place of the shutil.move of line 65.
Reidentify_CopiesNotMoves ==
    /\ pc = "reidentify"
    /\ LET original_temp == file_info.sha256
           decoded == (CHOOSE f \in tmpFiles : f.name = original_temp).body
           info == fileinfo(decoded)
       IN /\ file_info' = info
          /\ target_file' = info.sha256
          /\ tmpFiles' = WriteFile(tmpFiles, info.sha256, decoded)
    /\ pc' = "build_task"
    /\ UNCHANGED <<upd, run, error, env, calls, manifest_logged, service_task,
                   tmpResults, staging, workspace, files, normVars>>

\* file_info = identify.fileinfo(original_temp); shutil.move to target_file
Reidentify ==
    /\ pc = "reidentify"
    /\ LET original_temp == file_info.sha256
           decoded == (CHOOSE f \in tmpFiles : f.name = original_temp).body
           info == fileinfo(decoded)
       IN /\ file_info' = info
          /\ target_file' = info.sha256
          /\ tmpFiles' = WriteFile({f \in tmpFiles : f.name # original_temp},
                                   info.sha256, decoded)
    /\ pc' = "build_task"
    /\ UNCHANGED <<upd, run, error, env, calls, manifest_logged, service_task,
                   tmpResults, staging, workspace, files, normVars>>

\* The input cannot be read, or the temp directory cannot be written.
IOError ==
    /\ pc \in {"identify", "unwrap", "reidentify"}
    /\ Raise("io")
    /\ UNCHANGED <<upd, run, env, calls, manifest_logged, taskVars, fsVars, files,
                   normVars>>

\* ------------------------------------------------ try_run, lines 73 to 100
\* get_random_id() is fresh in every run: the run's number stands for it.
BuildTask ==
    /\ pc = "build_task"
    /\ service_task' = [sid |-> run, sha256 |-> file_info.sha256,
                        ttl |-> TTL, max_files |-> MAX_FILES]
    /\ pc' = "workspace"
    /\ UNCHANGED <<upd, run, error, env, calls, manifest_logged, file_info,
                   target_file, fsVars, files, normVars>>

FreshWorkspace == [exists |-> TRUE, artifacts |-> {}, result_json |-> {}]

\* PrepareWorkspace without the rmtree of lines 95 and 96.
PrepareWorkspace_NoWipe ==
    /\ pc = "workspace"
    /\ workspace' = IF ~workspace.exists THEN FreshWorkspace ELSE workspace
    /\ pc' = "handle"
    /\ UNCHANGED <<upd, run, error, env, calls, manifest_logged, taskVars,
                   tmpFiles, tmpResults, staging, files, normVars>>

\* rmtree(working_dir) if it is a directory, then makedirs if it is not.
PrepareWorkspace ==
    /\ pc = "workspace"
    /\ LET removed == IF workspace.exists THEN NoWorkspace ELSE workspace
       IN workspace' = IF ~removed.exists THEN FreshWorkspace ELSE removed
    /\ pc' = "handle"
    /\ UNCHANGED <<upd, run, error, env, calls, manifest_logged, taskVars,
                   tmpFiles, tmpResults, staging, files, normVars>>

\* The files a service deposits in staging, over what staging holds.
Deposit(dir, names, by) ==
    [exists |-> dir.exists \/ names # {},
     entries |-> {f \in dir.entries : f.name \notin names}
                 \cup {[name |-> n, by |-> by] : n \in names}]

\* self.service.handle_task(service_task): the service under test deposits
\* files in staging, then writes the result artifact and returns, or returns
\* without one, or raises.
handle_task ==
    /\ pc = "handle"
    /\ calls' = Append(calls, "handle_task")
    /\ \E names \in SUBSET FileNames :
        /\ staging' = Deposit(staging, names, run)
        /\ \/ \E body \in RawResults :
                /\ tmpResults' = tmpResults \cup
                       {[sid |-> service_task.sid,
                         sha256 |-> service_task.sha256,
                         body |-> body, by |-> run]}
                /\ pc' = "relocate"
                /\ error' = error
           \/ /\ tmpResults' = tmpResults
              /\ pc' = "relocate"
              /\ error' = error
           \/ /\ tmpResults' = tmpResults
              /\ Raise("handle_task")
    /\ UNCHANGED <<upd, run, env, manifest_logged, taskVars, tmpFiles, workspace,
                   files, normVars>>


\* ----------------------------------------------- try_run, lines 102 to 118
\* RelocateStaging with the loop of lines 108 and 109 left out: the listing
\* is taken and staging is removed with its files.
RelocateStaging_NoMove ==
    /\ pc = "relocate"
    /\ files' = staging.entries
    /\ staging' = NoDir
    /\ pc' = "check_result"
    /\ UNCHANGED <<upd, run, error, env, calls, manifest_logged, taskVars,
                   tmpFiles, tmpResults, workspace, normVars>>

\* makedirs(source) if it is missing; files = os.listdir(source); every file
\* is moved into <workspace>/working_directory; rmtree(source).  The
\* destination was created empty by PrepareWorkspace, so no move meets a file
\* of the same name.
RelocateStaging ==
    /\ pc = "relocate"
    /\ LET source == IF staging.exists
                       THEN staging
                       ELSE [exists |-> TRUE, entries |-> {}]
       IN /\ files' = source.entries
          /\ workspace' = [workspace EXCEPT
                             !.artifacts = {f \in @ : \A g \in source.entries :
                                                          g.name # f.name}
                                           \cup source.entries]
          /\ staging' = NoDir
    /\ pc' = "check_result"
    /\ UNCHANGED <<upd, run, error, env, calls, manifest_logged, taskVars,
                   tmpFiles, tmpResults, normVars>>

\* The artifact at <temp>/<sid>_<sha256>_result.json, if there is one.
ResultArtifacts ==
    {f \in tmpResults : /\ f.sid = service_task.sid
                        /\ f.sha256 = service_task.sha256}

\* CheckResult with the unlink of line 162 moved ahead of the raise.
CheckResult_UnlinkFirst ==
    /\ pc = "check_result"
    /\ IF ResultArtifacts = {}
         THEN /\ Raise("no_result")
              /\ tmpFiles' = {f \in tmpFiles : f.name # target_file}
         ELSE pc' = "parse" /\ error' = error /\ tmpFiles' = tmpFiles
    /\ UNCHANGED <<upd, run, env, calls, manifest_logged, taskVars, tmpResults,
                   staging, workspace, files, normVars>>

\* if not os.path.exists(result_json): raise Exception(...)
CheckResult ==
    /\ pc = "check_result"
    /\ IF ResultArtifacts = {}
         THEN Raise("no_result")
         ELSE pc' = "parse" /\ error' = error
    /\ UNCHANGED <<upd, run, env, calls, manifest_logged, taskVars, fsVars, files,
                   normVars>>

\* ----------------------------------------------- try_run, lines 120 to 159
\* file.pop('path', None) on every entry of a list.
PopPath(entries) == [i \in DOMAIN entries |-> [entries[i] EXCEPT !.path = FALSE]]

\* An exception inside the try block: caught at line 158, logged, and
\* try_run goes on at line 161.
Caught ==
    /\ invalid_logged' = TRUE
    /\ pc' = "cleanup"

\* json.load, the two pops, get_heuristics(), total_score = 0.
ParseAndStrip ==
    /\ pc = "parse"
    /\ LET raw == (CHOOSE f \in ResultArtifacts : TRUE).body
       IN IF ~raw.json
            THEN /\ Caught
                 /\ UNCHANGED <<result, heuristics, total_score, idx, reached>>
            ELSE /\ result' = [raw EXCEPT !.scratch = FALSE,
                                          !.extracted = PopPath(@),
                                          !.supplementary = PopPath(@)]
                 /\ \E cat \in Catalogs : heuristics' = cat
                 /\ total_score' = 0
                 /\ idx' = 1
                 /\ reached' = "stripped"
                 /\ pc' = "score"
                 /\ invalid_logged' = invalid_logged
    /\ UNCHANGED <<upd, run, error, env, calls, manifest_logged, taskVars, fsVars,
                   files>>

\* service_heuristic_to_result_heuristic: the catalog's record for a
\* declared id; InvalidHeuristicException for any other id.
service_heuristic_to_result_heuristic(h, cat) ==
    [state |-> "resolved", heur_id |-> h.heur_id,
     score |-> cat[h.heur_id].score, name |-> cat[h.heur_id].name]

\* One pass of the loop body, lines 134 to 143.  Line 143 stands after the
\* try statement of lines 137 to 142: for an id the catalog lacks it runs with
\* section['heuristic'] already None and heur_id not a key of heuristics,
\* and the exception it raises ends the outer try block.
ScoreSection ==
    /\ pc = "score"
    /\ idx <= Len(result.sections)
    /\ LET h == result.sections[idx]
       IN IF h.state = "absent"
            THEN /\ idx' = idx + 1
                 /\ UNCHANGED <<result, total_score, invalid_logged, pc>>
            ELSE IF h.heur_id \in DOMAIN heuristics
              THEN LET r == service_heuristic_to_result_heuristic(h, heuristics)
                   IN /\ result' = [result EXCEPT !.sections[idx] =
                                       [r EXCEPT !.name =
                                            heuristics[h.heur_id].name]]
                      /\ total_score' = total_score + r.score
                      /\ idx' = idx + 1
                      /\ UNCHANGED <<invalid_logged, pc>>
              ELSE /\ result' = [result EXCEPT !.sections[idx] =
                                    NullHeuristic(h.heur_id)]
                   /\ Caught
                   /\ UNCHANGED <<total_score, idx>>
    /\ UNCHANGED <<upd, run, error, env, calls, manifest_logged, taskVars, fsVars,
                   files, heuristics, reached>>

\* result['result']['score'] = total_score, once the loop is over.
SetScore ==
    /\ pc = "score"
    /\ idx > Len(result.sections)
    /\ result' = [result EXCEPT !.score = total_score]
    /\ reached' = "scored"
    /\ pc' = "stamp"
    /\ UNCHANGED <<upd, run, error, env, calls, manifest_logged, taskVars, fsVars,
                   files, heuristics, total_score, idx, invalid_logged>>

\* now_as_iso(x): the clock at the moment of the call, plus x seconds.
now_as_iso(clock, x) == clock + x

\* Three reads of the clock, which may advance between them.  Times are
\* counted from the first read: the arithmetic does not depend on the epoch.
Stamp ==
    /\ pc = "stamp"
    /\ \E d1 \in Ticks, d2 \in Ticks :
        result' = [result EXCEPT
                      !.created = <<now_as_iso(0, 0)>>,
                      !.archive_ts = <<now_as_iso(d1, ONE_DAY)>>,
                      !.expiry_ts = <<now_as_iso(d1 + d2,
                                        service_task.ttl * 24 * 60 * 60)>>]
    /\ reached' = "stamped"
    /\ pc' = "validate"
    /\ UNCHANGED <<upd, run, error, env, calls, manifest_logged, taskVars, fsVars,
                   files, heuristics, total_score, idx, invalid_logged>>

\* Validate with the exception of Result(result) not caught at line 158.
Validate_Uncaught ==
    /\ pc = "validate"
    /\ IF result.schema
         THEN /\ reached' = "validated"
              /\ pc' = "cleanup"
              /\ error' = error
         ELSE Raise("invalid_result") /\ reached' = reached
    /\ UNCHANGED <<upd, run, env, calls, manifest_logged, taskVars, fsVars,
                   files, result, heuristics, total_score, idx,
                   invalid_logged>>

\* result = Result(result): the model accepts the result or raises.
Validate ==
    /\ pc = "validate"
    /\ IF result.schema
         THEN /\ reached' = "validated"
              /\ pc' = "cleanup"
              /\ invalid_logged' = invalid_logged
         ELSE Caught /\ reached' = reached
    /\ UNCHANGED <<upd, run, error, env, calls, manifest_logged, taskVars, fsVars,
                   files, result, heuristics, total_score, idx>>

\* ----------------------------------------------- try_run, lines 161 to 167
\* Cleanup without the unlink of line 162.
Cleanup_NoUnlink ==
    /\ pc = "cleanup"
    /\ pc' = "move_result"
    /\ UNCHANGED <<upd, run, error, env, calls, manifest_logged, taskVars, fsVars,
                   files, normVars>>

\* os.unlink(target_file)
Cleanup ==
    /\ pc = "cleanup"
    /\ IF \E f \in tmpFiles : f.name = target_file
         THEN /\ tmpFiles' = {f \in tmpFiles : f.name # target_file}
              /\ pc' = "move_result"
              /\ error' = error
         ELSE Raise("io") /\ tmpFiles' = tmpFiles
    /\ UNCHANGED <<upd, run, env, calls, manifest_logged, taskVars, tmpResults,
                   staging, workspace, files, normVars>>

\* MoveResult writing the normalized result where one was parsed.
MoveResult_WritesNormalized ==
    /\ pc = "move_result"
    /\ LET artifact == CHOOSE f \in ResultArtifacts : TRUE
       IN /\ workspace' = [workspace EXCEPT !.result_json =
                              {[body |-> IF result.json THEN result
                                                         ELSE artifact.body,
                                by |-> artifact.by]}]
          /\ tmpResults' = tmpResults \ {artifact}
    /\ pc' = "done"
    /\ UNCHANGED <<upd, run, error, env, calls, manifest_logged, taskVars,
                   tmpFiles, staging, files, normVars>>

\* shutil.move(result_json, <workspace>/result.json)
MoveResult ==
    /\ pc = "move_result"
    /\ LET artifact == CHOOSE f \in ResultArtifacts : TRUE
       IN /\ workspace' = [workspace EXCEPT !.result_json =
                              {[body |-> artifact.body, by |-> artifact.by]}]
          /\ tmpResults' = tmpResults \ {artifact}
    /\ pc' = "done"
    /\ UNCHANGED <<upd, run, error, env, calls, manifest_logged, taskVars,
                   tmpFiles, staging, files, normVars>>

\* RunService.stop: self.service.stop_service().  Nothing calls it: __main__
\* is rs = RunService(); rs.try_run(), so it is no step of a run.
stop ==
    /\ calls' = Append(calls, "stop_service")
    /\ UNCHANGED <<upd, run, pc, error, env, manifest_logged, taskVars, fsVars,
                   files, normVars>>

\* --------------------------------------------------------------- __main__
Ended == pc \in {"done", "returned", "aborted"}

\* rs = RunService(); rs.try_run(): the developer runs the harness again on
\* the same input path and service.  The process is new; the file system is
\* as the previous run left it.
NewRun ==
    /\ Ended
    /\ run < MaxRuns
    /\ run' = run + 1
    /\ env' \in Envs
    /\ pc' = "load_module"
    /\ error' = "none"
    /\ calls' = <<>>
    /\ manifest_logged' = FALSE
    /\ file_info' = NoInfo
    /\ target_file' = Sha(NoFile)
    /\ service_task' = NoTask
    /\ files' = {}
    /\ result' = NoResult
    /\ heuristics' = NoCatalog
    /\ total_score' = 0
    /\ idx' = 0
    /\ reached' = "none"
    /\ invalid_logged' = FALSE
    /\ UNCHANGED fsVars
    /\ UNCHANGED upd

Next ==
    \/ LoadModule
    \/ load_service_manifest
    \/ CheckInput
    \/ start_service
    \/ Identify
    \/ Unwrap
    \/ Reidentify
    \/ IOError
    \/ BuildTask
    \/ PrepareWorkspace
    \/ handle_task
    \/ RelocateStaging
    \/ CheckResult
    \/ ParseAndStrip
    \/ ScoreSection
    \/ SetScore
    \/ Stamp
    \/ Validate
    \/ Cleanup
    \/ MoveResult
    \/ NewRun

Spec == Init /\ [][Next]_vars

\* ====================================================== updater/app.py
\* The Flask application serves one request at a time: the route's function,
\* for the protected routes inside the wrapper of api_login.
Respond(r) == [upd EXCEPT !.phase = "responded", !.response = r]

\* A client sends a request; the status source is in some state.
Request ==
    /\ upd.phase \in {"idle", "responded"}
    /\ \E e \in Endpoints, k \in ApiKeys, s \in StatusSources :
          upd' = [phase |-> "routed", endpoint |-> e, apikey |-> k,
                  source |-> s, queried |-> FALSE, response |-> "none"]
    /\ UNCHANGED harnessVars

\* /healthz/live
container_ready ==
    /\ upd.phase = "routed"
    /\ upd.endpoint = LiveEndpoint
    /\ upd' = Respond("OK")
    /\ UNCHANGED harnessVars

\* /status: session.get, raise_for_status, the text of the answer.
update_status ==
    /\ upd.phase = "routed"
    /\ upd.endpoint = StatusEndpoint
    /\ upd' = [Respond(IF upd.source.up THEN "status"
                                         ELSE "InternalServerError")
                  EXCEPT !.queried = TRUE]
    /\ UNCHANGED harnessVars

\* api_login without the comparison of line 42.
api_login_NoCheck ==
    /\ upd.phase = "routed"
    /\ upd.endpoint \in Protected
    /\ upd' = [upd EXCEPT !.phase = "authorized"]
    /\ UNCHANGED harnessVars

\* api_login.base: the key is compared before func is called.
api_login ==
    /\ upd.phase = "routed"
    /\ upd.endpoint \in Protected
    /\ upd' = IF AUTH_KEY # upd.apikey
                THEN Respond("Unauthorized")
                ELSE [upd EXCEPT !.phase = "authorized"]
    /\ UNCHANGED harnessVars

\* get_paths that does not look at _tar.
get_paths_DirectoryOnly ==
    /\ upd.phase = "authorized"
    /\ upd' = IF upd.source.up /\ upd.source.directory = "isdir"
                THEN [upd EXCEPT !.phase = "paths", !.queried = TRUE]
                ELSE [Respond("ServiceUnavailable") EXCEPT !.queried = TRUE]
    /\ UNCHANGED harnessVars

\* get_paths, the first statement of each protected route: every exception
\* becomes ServiceUnavailable.
get_paths ==
    /\ upd.phase = "authorized"
    /\ upd' = IF /\ upd.source.up
                 /\ ~(upd.source.directory = "null"
                      \/ upd.source.directory # "isdir")
                 /\ ~(upd.source.tar = "null" \/ upd.source.tar # "isfile")
                THEN [upd EXCEPT !.phase = "paths", !.queried = TRUE]
                ELSE [Respond("ServiceUnavailable") EXCEPT !.queried = TRUE]
    /\ UNCHANGED harnessVars

\* /files: the listing of the update directory.
list_files ==
    /\ upd.phase = "paths"
    /\ upd.endpoint = "/files"
    /\ upd' = Respond("listing")
    /\ UNCHANGED harnessVars

\* /files/<path:name>: send_from_directory answers NotFound for a name the
\* directory does not hold.
get_file ==
    /\ upd.phase = "paths"
    /\ upd.endpoint = "/files/<path:name>"
    /\ \E found \in BOOLEAN :
          upd' = Respond(IF found THEN "file" ELSE "NotFound")
    /\ UNCHANGED harnessVars

\* /tar: the tar file.
get_all_files ==
    /\ upd.phase = "paths"
    /\ upd.endpoint = "/tar"
    /\ upd' = Respond("tar")
    /\ UNCHANGED harnessVars

InitUpdater ==
    /\ run = 1
    /\ env = [module |-> TRUE, manifest |-> "valid", input |-> NoFile]
    /\ FreshProcess
    /\ tmpFiles = {}
    /\ tmpResults = {}
    /\ staging = NoDir
    /\ workspace = NoWorkspace
    /\ upd = IdleUpdater

NextUpdater ==
    \/ Request
    \/ container_ready
    \/ update_status
    \/ api_login
    \/ get_paths
    \/ list_files
    \/ get_file
    \/ get_all_files

SpecUpdater == InitUpdater /\ [][NextUpdater]_vars


\* ================================================================ claims
\* The try block is over: line 161 has been reached.
NormalizationOver == pc \in {"cleanup", "move_result", "done"}

\* The raw artifact of this run, in the temp directory or, once moved, in
\* the workspace.
RawArtifacts ==
    {f.body : f \in ResultArtifacts} \cup
    (IF pc = "done" THEN {f.body : f \in workspace.result_json} ELSE {})

RECURSIVE SumResolved(_, _)
\* The sum of the catalog scores of the sections whose heuristic id the
\* catalog declares.
SumResolved(secs, cat) ==
    IF secs = <<>> THEN 0
    ELSE LET h == Head(secs)
         IN (IF h.state # "absent" /\ h.heur_id \in DOMAIN cat
               THEN cat[h.heur_id].score ELSE 0)
            + SumResolved(Tail(secs), cat)

HasPath(entries) == \E i \in DOMAIN entries : entries[i].path

\* C1: once normalization of a parsed result is over, the result's score is
\* the sum of the catalog scores of the sections whose heuristic id is in the
\* catalog, sections without heuristic or with an unknown id counting 0.
C1_ScoreIsSumOfResolved ==
    (NormalizationOver /\ result.json) =>
        \A raw \in RawArtifacts :
            result.score = SumResolved(raw.sections, heuristics)

\* C2: once normalization is over, a result with a section whose heuristic
\* was nulled has had all its sections processed and has gone through the
\* score, timestamp and validation steps.
C2_NullDoesNotAbort ==
    (NormalizationOver /\ \E i \in DOMAIN result.sections :
                              result.sections[i].state = "null") =>
        /\ idx > Len(result.sections)
        /\ reached \in {"stamped", "validated"}

\* C3 as claimed: after a completed run, result.json of the workspace holds
\* neither the scratch field nor a path field in extracted or supplementary.
C3_PersistedResultStripped ==
    pc = "done" =>
        \A f \in workspace.result_json :
            /\ ~f.body.scratch
            /\ ~HasPath(f.body.extracted)
            /\ ~HasPath(f.body.supplementary)

\* C3 as amended: the step that completes a run puts the raw artifact,
\* unchanged, at result.json of the workspace; the scratch field and the path
\* fields are absent from the in-memory copy that was scored and validated.
C3_RawPersistedCopyStripped ==
    [][(pc = "move_result" /\ pc' = "done") =>
          /\ workspace'.result_json =
                 {[body |-> a.body, by |-> a.by] : a \in ResultArtifacts}
          /\ ResultArtifacts # {}
          /\ result.json =>
                 /\ ~result.scratch
                 /\ ~HasPath(result.extracted)
                 /\ ~HasPath(result.supplementary)]_vars

C3_Witness ==
    /\ pc = "done"
    /\ result.json
    /\ ~result.scratch
    /\ \E f \in workspace.result_json :
           f.body.scratch /\ HasPath(f.body.extracted)

\* C4 as claimed: when the run aborts for want of a result artifact, the
\* staging directory still exists and holds every file listed in it after
\* handle_task returned.
C4_StagingRetained ==
    error = "no_result" =>
        /\ staging.exists
        /\ files \subseteq staging.entries

\* C4 as amended: when the run aborts for want of a result artifact, every
\* file listed in staging after handle_task returned is in the artifact
\* subdirectory of the workspace and the staging directory is gone.
C4_StagingMovedToWorkspace ==
    error = "no_result" =>
        /\ ~staging.exists
        /\ workspace.exists
        /\ files \subseteq workspace.artifacts

C4_Witness ==
    /\ error = "no_result"
    /\ files # {}
    /\ files \subseteq workspace.artifacts

\* C5: a run that has ended and had started the service has stopped it
\* exactly once.
C5_StoppedOnceAfterStart ==
    (Ended /\ \E i \in DOMAIN calls : calls[i] = "start_service") =>
        Cardinality({i \in DOMAIN calls : calls[i] = "stop_service"}) = 1

\* C6: when a second or later run completes, every file of the workspace's
\* artifact subdirectory was deposited by that run's handle_task and
\* result.json is that run's result.
C6_OnlyThisRunsArtifacts ==
    (pc = "done" /\ run >= 2) =>
        /\ \A f \in workspace.artifacts : f.by = run
        /\ workspace.result_json # {}
        /\ \A f \in workspace.result_json : f.by = run

\* C7 as claimed: when the run aborts for want of a result artifact, the
\* payload at <temp>/<sha256> is gone and the workspace has no result.json.
C7_PayloadDeletedAtAbort ==
    error = "no_result" =>
        /\ ~\E f \in tmpFiles : f.name = target_file
        /\ workspace.result_json = {}

\* C7 as amended: when the run aborts for want of a result artifact, the
\* payload is still at <temp>/<sha256> and the workspace has no result.json.
C7_PayloadKeptAtAbort ==
    error = "no_result" =>
        /\ \E f \in tmpFiles : f.name = target_file /\ Sha(f.body) = f.name
        /\ target_file = service_task.sha256
        /\ workspace.result_json = {}

C7_Witness ==
    /\ error = "no_result"
    /\ \E f \in tmpFiles : f.name = target_file
    /\ env.input.kind = "cart"

\* C8: while the manifest loads and the input path is no file, no step of the
\* run raises, calls the service or changes the temp directory, the staging
\* directory or the workspace.
C8_MissingInputIsNoOp ==
    [][(env.input = NoFile /\ env.module /\ env.manifest # "missing"
        /\ run' = run) =>
          /\ UNCHANGED fsVars
          /\ calls' = <<>>
          /\ pc' \in {"load_manifest", "check_input", "returned"}
          /\ error' = "none"]_vars

C8_Witness ==
    /\ pc = "returned"
    /\ workspace.exists
    /\ workspace.result_json # {}

DriverOrder == <<"start_service", "handle_task", "stop_service">>

C10_DriverOrder ==
    /\ Len(calls) <= Len(DriverOrder)
    /\ \A i \in DOMAIN calls : calls[i] = DriverOrder[i]

C10_Witness == calls = <<"start_service", "handle_task">>


\* The payload file at the name held by target_file.
TargetFiles == {f \in tmpFiles : f.name = target_file}

\* The exceptions that leave try_run.
FatalErrors == {"module", "manifest", "io", "handle_task", "no_result"}

\* C11: no failure of normalization or validation leaves try_run; a run that
\* completes without a validated result has logged the failure, holds this
\* run's artifact at result.json and the staged files in the artifact
\* subdirectory, and has deleted the temp payload and the temp artifact.
C11_InvalidResultOnlyLogged ==
    /\ error \in {"none"} \cup FatalErrors
    /\ (reached # "none" \/ invalid_logged) => error = "none"
    /\ (NormalizationOver /\ reached # "validated") => invalid_logged
    /\ (pc = "done" /\ invalid_logged) =>
          /\ \E f \in workspace.result_json : f.by = run
          /\ files \subseteq workspace.artifacts
          /\ TargetFiles = {}
          /\ ResultArtifacts = {}

C11_Witness ==
    /\ pc = "done"
    /\ invalid_logged
    /\ reached = "stamped"
    /\ files # {}
    /\ \E f \in workspace.result_json : f.by = run /\ f.body.json

\* C12: once identification and unwrapping are over, the temp file named by
\* target_file exists, is named by the sha256 of its own bytes, and that is
\* the sha256 of file_info; in a first run it is the only payload file of the
\* temp directory; for a CaRT input it holds the unpacked payload, file_info
\* is that of the payload and no file is left under the archive's own
\* sha256; for any other input it holds the input's bytes.
C12_OneCanonicalPayload ==
    pc = "build_task" =>
        /\ \E f \in tmpFiles : TargetFiles = {f}
        /\ \A f \in TargetFiles :
              /\ f.name = Sha(f.body)
              /\ file_info.sha256 = Sha(f.body)
              /\ file_info = fileinfo(f.body)
              /\ IF env.input.kind = "cart"
                   THEN /\ f.body = unpack_stream(env.input)
                        /\ f.body # env.input
                        /\ ~\E g \in tmpFiles : g.name = Sha(env.input)
                   ELSE f.body = env.input
        /\ run = 1 => Cardinality(tmpFiles) = 1

C12_Witness ==
    /\ pc = "build_task"
    /\ env.input.kind = "cart"
    /\ \E f \in TargetFiles : f.body = unpack_stream(env.input)

\* Line 149 has been reached: the three timestamps are set.
Stamped == reached \in {"stamped", "validated"}

\* C13: archive_ts is created plus one day.
C13_ArchiveIsCreatedPlusOneDay ==
    Stamped => result.archive_ts[1] = result.created[1] + ONE_DAY

\* C14: expiry_ts is created plus the task's ttl, the ttl counted in
\* seconds as the task declares it.
C14_ExpiryIsCreatedPlusTtlSeconds ==
    Stamped => result.expiry_ts[1] = result.created[1] + service_task.ttl

\* C15: after a run that completes, every file listed in staging after
\* handle_task returned is in the artifact subdirectory, the staging
\* directory is gone, result.json exists, and neither the result artifact
\* nor the payload is left in the temp directory.
C15_CompletedRunRelocatedAll ==
    pc = "done" =>
        /\ files \subseteq workspace.artifacts
        /\ ~staging.exists
        /\ staging.entries = {}
        /\ workspace.exists
        /\ workspace.result_json # {}
        /\ ResultArtifacts = {}
        /\ TargetFiles = {}

C15_Witness ==
    /\ pc = "done"
    /\ files # {}
    /\ reached = "validated"
    /\ env.input.kind = "cart"

\* Positions between the preparation of the workspace and the end of
\* normalization.
BeforeNormalized ==
    {"handle", "relocate", "check_result", "parse", "score", "stamp",
     "validate"}

\* C16 as claimed: until normalization is over nothing has been relocated
\* into the workspace, and handle_task is not called before the task is
\* built.
C16_RelocateAfterNormalize ==
    /\ (pc \in BeforeNormalized /\ error = "none") =>
          (workspace.artifacts = {} /\ workspace.result_json = {})
    /\ (\E i \in DOMAIN calls : calls[i] = "handle_task") =>
          service_task # NoTask

\* C16 as amended: the staged files are relocated after handle_task and
\* before normalization begins, the result artifact after normalization and
\* after the payload is deleted; tasks are built after identification and
\* unwrapping, and handle_task is called after the task is built and the
\* workspace prepared.
C16_StagedBeforeResultAfter ==
    /\ (pc \in {"handle", "relocate"}) =>
          (workspace.artifacts = {} /\ workspace.result_json = {})
    /\ (pc \in {"check_result", "parse", "score", "stamp", "validate",
                "cleanup", "move_result"}) =>
          (workspace.artifacts = files /\ workspace.result_json = {}
           /\ ~staging.exists)
    /\ (pc = "move_result") => TargetFiles = {}
    /\ (pc = "done") => (workspace.result_json # {} /\ NormalizationOver)
    /\ (service_task # NoTask) =>
          (service_task.sha256 = file_info.sha256
           /\ target_file = file_info.sha256)
    /\ (\E i \in DOMAIN calls : calls[i] = "handle_task") =>
          (service_task # NoTask /\ workspace.exists)
    /\ (reached # "none") =>
          \E i \in DOMAIN calls : calls[i] = "handle_task"

C16_Witness ==
    /\ pc = "parse"
    /\ workspace.artifacts # {}
    /\ workspace.result_json = {}

\* C19: the workspace changes only at the positions of lines 95 to 98, 107
\* to 109 and 165, all with the task built; a run ended by a failure to
\* load the module or the manifest or by an I/O error has built no task and
\* has left the workspace as it found it.
C19_EarlyFailureKeepsWorkspace ==
    [][(run' = run) =>
          /\ (workspace' # workspace) =>
                /\ pc \in {"workspace", "relocate", "move_result"}
                /\ service_task # NoTask
                /\ service_task.sha256 = file_info.sha256
          /\ (error' \in {"module", "manifest", "io"}) =>
                /\ service_task' = NoTask
                /\ workspace' = workspace]_vars

C19_Witness ==
    /\ run = 2
    /\ error = "io"
    /\ workspace.result_json # {}
    /\ workspace.artifacts # {}


\* The answers that carry content of the update.
UpdateContent == {"listing", "file", "tar"}

\* The status source is reachable and reports an existing directory and an
\* existing tar file.
UpdateReady ==
    /\ upd.source.up
    /\ upd.source.directory = "isdir"
    /\ upd.source.tar = "isfile"

\* C17: a request to a protected route whose X-APIKEY is not the configured
\* key never gets the status source queried and is answered Unauthorized and
\* nothing else, whatever the state of the update; content is only sent for
\* the configured key; /healthz/live and /status are never answered
\* Unauthorized, whatever the key.
C17_KeyCheckedFirst ==
    /\ (upd.endpoint \in Protected /\ upd.apikey # AUTH_KEY) =>
          /\ ~upd.queried
          /\ upd.phase \in {"routed", "responded"}
          /\ upd.response \in {"none", "Unauthorized"}
          /\ (upd.phase = "responded") => (upd.response = "Unauthorized")
    /\ (upd.response \in UpdateContent) =>
          (upd.endpoint \in Protected /\ upd.apikey = AUTH_KEY)
    /\ (upd.endpoint = LiveEndpoint /\ upd.phase = "responded") =>
          (upd.response = "OK" /\ ~upd.queried)
    /\ (upd.endpoint = StatusEndpoint /\ upd.phase = "responded") =>
          upd.response \in {"status", "InternalServerError"}

C17_Witness ==
    /\ upd.endpoint = "/tar"
    /\ upd.apikey = "SomeOtherKey"
    /\ ~UpdateReady
    /\ upd.response = "Unauthorized"

\* C18: a request to a protected route with the configured key is answered
\* from the update only if the update is ready, and is answered
\* ServiceUnavailable in every other case, on each of the three routes.
C18_ContentOnlyWhenReady ==
    (upd.endpoint \in Protected /\ upd.apikey = AUTH_KEY
     /\ upd.phase = "responded") =>
        IF UpdateReady
          THEN upd.response \in
                  (CASE upd.endpoint = "/files" -> {"listing"}
                     [] upd.endpoint = "/tar" -> {"tar"}
                     [] OTHER -> {"file", "NotFound"})
          ELSE upd.response = "ServiceUnavailable"

C18_Witness ==
    /\ upd.endpoint = "/files"
    /\ upd.apikey = AUTH_KEY
    /\ upd.source.up
    /\ upd.source.directory = "isdir"
    /\ upd.source.tar = "missing"
    /\ upd.response = "ServiceUnavailable"

====
